---------------------------- MODULE Spec2Model ----------------------------
(***************************************************************************)
(* A model of GPflow/kernels.py: kernel construction (Kern.__init__),      *)
(* active-dimension slicing (Kern._slice), the quadrature guard            *)
(* (Kern._check_quadrature and the four expectations that call it), the    *)
(* kernel matrices K / Kdiag of the kernel classes, the combinators Add    *)
(* and Prod, and make_kernel_names.                                        *)
(*                                                                         *)
(* Matrices are sequences of rows, rows are sequences of integers.  Python *)
(* strings are sequences of one-character strings.  An optional integer is *)
(* None or Some(n).                                                        *)
(***************************************************************************)
EXTENDS Integers, Sequences, FiniteSets, TLC

VARIABLES
    pc,             \* position of the running call
    kern_list,      \* make_kernel_names / Combination: the list of kernels
    names,          \* make_kernel_names: the local list `names`
    counting_dict,  \* make_kernel_names: the local dict `counting_dict`
    args,           \* Kern.__init__: the constructor's arguments
    kern,           \* the kernel object (its fields), or None before construction
    X,              \* first input matrix
    X2,             \* second input matrix, or None
    presliced,      \* the presliced argument of K / Kdiag
    result,         \* what the running call returned or raised
    setting,        \* settings.numerics.ekern_quadrature
    warned          \* warnings issued by the running call

vars == <<pc, kern_list, names, counting_dict, args, kern, X, X2, presliced,
          result, setting, warned>>

\* Python's None where a matrix or an integer may stand: an optional integer
\* is None or <<n>>, a matrix always has rows.
None == <<>>
Some(n) == <<n>>
ValueOf(o) == o[1]

\* No active_dims given, no kernel constructed yet, no error raised.
NoDims == [kind |-> "None"]
NoKern == [cls |-> "None"]
NoArgs == [input_dim |-> 0, active_dims |-> NoDims]
OK == "ok"

----------------------------------------------------------------------------
(* Bounds of the model.                                                    *)

MaxKern == 4        \* longest kern_list given to make_kernel_names
MaxDim == 2         \* largest input_dim given to a constructor
MaxWidth == 3       \* most columns of an input matrix
MaxRows == 2        \* most rows of an input matrix
MaxPoints == 2      \* largest num_gauss_hermite_points a caller assigns
CosTerms == 12      \* last term of the cosine series that is summed
MaxN == 3           \* most rows of an input of K
MaxVal == 3         \* largest entry of an input of K
MaxVar == 2         \* largest variance parameter
MaxComb == 2        \* longest list given to Add and Prod

----------------------------------------------------------------------------
(* Python strings.                                                         *)

Upper == <<"A","B","C","D","E","F","G","H","I","J","K","L","M",
           "N","O","P","Q","R","S","T","U","V","W","X","Y","Z">>
LowerOf == <<"a","b","c","d","e","f","g","h","i","j","k","l","m",
             "n","o","p","q","r","s","t","u","v","w","x","y","z">>

\* str.lower() on one character: upper-case letters map to lower case,
\* everything else (lower case, digits, '_') is unchanged.
LowerChar(c) ==
    IF \E i \in 1..Len(Upper) : Upper[i] = c
    THEN LowerOf[CHOOSE i \in 1..Len(Upper) : Upper[i] = c]
    ELSE c

\* k.__class__.__name__.lower()
lower(s) == [i \in 1..Len(s) |-> LowerChar(s[i])]

Digits == <<"0","1","2","3","4","5","6","7","8","9">>

\* str(n) for a non-negative integer n: its decimal digits.
RECURSIVE str(_)
str(n) ==
    IF n < 10 THEN <<Digits[n + 1]>>
    ELSE Append(str(n \div 10), Digits[(n % 10) + 1])

\* names.index(x): the first position (1-based here) holding x.
index(l, x) == CHOOSE i \in 1..Len(l) : l[i] = x /\ \A j \in 1..(i-1) : l[j] # x

----------------------------------------------------------------------------
(* make_kernel_names(kern_list).  A kernel is represented here by its      *)
(* class name, the only thing the function reads.                          *)

\* Class names of the module and of user subclasses of Kern.  Any Python
\* identifier is a legal class name.
ClassNames ==
    { <<"R","B","F">>, <<"R","b","f">>, <<"W","h","i","t","e">>,
      <<"R","B","F","_","1">>, <<"R","B","F","_","2">> }

RECURSIVE SeqsUpTo(_, _)
SeqsUpTo(S, n) ==
    IF n = 0 THEN { <<>> }
    ELSE LET shorter == SeqsUpTo(S, n - 1)
         IN  shorter \cup { Append(s, x) : s \in shorter, x \in S }

NamesIdle ==
    /\ args = NoArgs /\ kern = NoKern /\ X = None /\ X2 = None
    /\ presliced = FALSE /\ result = None /\ setting = "default" /\ warned = 0

InitNames ==
    /\ pc = "names_loop"
    /\ kern_list \in (SeqsUpTo(ClassNames, MaxKern) \ { <<>> })
    /\ names = <<>>
    /\ counting_dict = <<>>       \* a dict: a function from its keys
    /\ NamesIdle

\* The renaming of the first occurrence, lines 623-624.
RenameFirst(nms, raw_name) ==
    [nms EXCEPT ![index(nms, raw_name)] = raw_name \o <<"_", "1">>]

\* One iteration of `for k in kern_list`, lines 618-630.  The iteration
\* handles kern_list[Len(names) + 1]: every iteration appends one name.
NamesStep ==
    /\ pc = "names_loop"
    /\ Len(names) < Len(kern_list)
    /\ LET k == kern_list[Len(names) + 1]
           raw_name == lower(k)
       IN  IF raw_name \in DOMAIN counting_dict
           THEN LET renamed == IF counting_dict[raw_name] = 1
                               THEN RenameFirst(names, raw_name)
                               ELSE names
                    cnt == counting_dict[raw_name] + 1
                IN  /\ counting_dict' = [counting_dict EXCEPT ![raw_name] = cnt]
                    /\ names' = Append(renamed, raw_name \o <<"_">> \o str(cnt))
           ELSE /\ counting_dict' = (raw_name :> 1) @@ counting_dict
                /\ names' = Append(names, raw_name)
    /\ UNCHANGED <<pc, kern_list, args, kern, X, X2, presliced, result,
                   setting, warned>>

\* `return names`, line 631.
NamesReturn ==
    /\ pc = "names_loop"
    /\ Len(names) = Len(kern_list)
    /\ pc' = "names_done"
    /\ result' = names
    /\ UNCHANGED <<kern_list, names, counting_dict, args, kern, X, X2,
                   presliced, setting, warned>>

NextNames == NamesStep \/ NamesReturn

SpecNames == InitNames /\ [][NextNames]_vars

----------------------------------------------------------------------------
(* Claims about make_kernel_names.                                         *)

\* The number of kernels among the first i of kl whose lower-cased class
\* name is raw.
RECURSIVE Occurrences(_, _, _)
Occurrences(kl, raw, i) ==
    IF i = 0 THEN 0
    ELSE Occurrences(kl, raw, i - 1) + (IF lower(kl[i]) = raw THEN 1 ELSE 0)

\* C2: make_kernel_names gives each kernel a unique name: the returned list
\* is as long as kern_list and its entries are pairwise distinct.
C2_UniqueNames ==
    pc = "names_done" =>
        /\ Len(result) = Len(kern_list)
        /\ \A i, j \in 1..Len(result) : i # j => result[i] # result[j]

\* C3: the i-th returned name belongs to the i-th kernel: it is the
\* lower-cased class name when that occurs once in the list, and
\* name_1 .. name_n in list order when it occurs n >= 2 times.
C3_NamingScheme ==
    pc = "names_done" =>
        /\ Len(result) = Len(kern_list)
        /\ \A i \in 1..Len(kern_list) :
             LET raw == lower(kern_list[i])
                 n == Occurrences(kern_list, raw, Len(kern_list))
             IN  result[i] = IF n = 1 THEN raw
                             ELSE raw \o <<"_">>
                                      \o str(Occurrences(kern_list, raw, i))

----------------------------------------------------------------------------
(* Kern.__init__ and Kern._slice.                                          *)

Min(a, b) == IF a < b THEN a ELSE b
Max(a, b) == IF a < b THEN b ELSE a

\* Python's slice(start, stop, step); each field is an optional integer.
slice(start, stop, step) ==
    [kind |-> "slice", start |-> start, stop |-> stop, step |-> step]

\* np.array(active_dims, dtype=np.int32): a list of column numbers.
array(dims) == [kind |-> "array", dims |-> dims]

IsSlice(a) == a.kind = "slice"

\* Kern.__init__(input_dim, active_dims), lines 64-91.  Returns the error
\* the constructor raises (OK when it returns) and the object's fields.
\* In the slice branch, `range(*active_dims)` unpacks a slice object, which
\* is not iterable: evaluating the assert's condition raises TypeError.
Kern_init(input_dim, active_dims) ==
    IF active_dims = NoDims
    THEN [err |-> OK, input_dim |-> input_dim,
          active_dims |-> slice(None, Some(input_dim), None),
          num_gauss_hermite_points |-> 20]
    ELSE IF IsSlice(active_dims)
    THEN [err |-> IF /\ active_dims.start # None
                     /\ active_dims.stop # None
                     /\ active_dims.step # None
                  THEN "TypeError" ELSE OK,
          input_dim |-> input_dim,
          active_dims |-> active_dims,
          num_gauss_hermite_points |-> 20]
    ELSE [err |-> IF Len(active_dims.dims) = input_dim
                  THEN OK ELSE "AssertionError",
          input_dim |-> input_dim,
          active_dims |-> active_dims,
          num_gauss_hermite_points |-> 20]

Rows(M) == Len(M)
Width(M) == Len(M[1])

\* The column numbers (0-based) that M[:, sl] keeps of a matrix with w
\* columns: start and stop default to the ends and are clamped to the
\* width, step defaults to 1 (non-negative start/stop, positive step).
SliceIndices(sl, w) ==
    LET start == IF sl.start = None THEN 0 ELSE Min(ValueOf(sl.start), w)
        stop == IF sl.stop = None THEN w ELSE Min(ValueOf(sl.stop), w)
        step == IF sl.step = None THEN 1 ELSE ValueOf(sl.step)
        n == IF stop <= start THEN 0 ELSE (stop - start + step - 1) \div step
    IN  [k \in 1..n |-> start + (k - 1) * step]

\* The matrix made of the columns idx (0-based) of M, in that order.
Columns(M, idx) == [i \in 1..Len(M) |-> [j \in 1..Len(idx) |-> M[i][idx[j] + 1]]]

\* tf.transpose(tf.gather(tf.transpose(M), dims)): tf.gather raises on an
\* index outside the matrix (the CPU kernel's behaviour).
GatherOK(M, dims) == \A j \in 1..Len(dims) : dims[j] \in 0..(Width(M) - 1)

\* Kern._slice(X, X2), lines 93-114: the error raised (OK when it
\* returns) and the pair returned.  tf.assert_equal guards X only.
Slice(k, M, M2) ==
    IF IsSlice(k.active_dims)
    THEN LET sX == Columns(M, SliceIndices(k.active_dims, Width(M)))
             sX2 == IF M2 = None THEN None
                    ELSE Columns(M2, SliceIndices(k.active_dims, Width(M2)))
         IN  IF Width(sX) = k.input_dim
             THEN [err |-> OK, X |-> sX, X2 |-> sX2]
             ELSE [err |-> "InvalidArgumentError", X |-> None, X2 |-> None]
    ELSE LET dims == k.active_dims.dims
         IN  IF ~GatherOK(M, dims) \/ (M2 # None /\ ~GatherOK(M2, dims))
             THEN [err |-> "InvalidArgumentError", X |-> None, X2 |-> None]
             ELSE LET sX == Columns(M, dims)
                      sX2 == IF M2 = None THEN None ELSE Columns(M2, dims)
                  IN  IF Width(sX) = k.input_dim
                      THEN [err |-> OK, X |-> sX, X2 |-> sX2]
                      ELSE [err |-> "InvalidArgumentError",
                            X |-> None, X2 |-> None]

\* A matrix whose entries are pairwise distinct, so that a column of a
\* result is identified by its content.
Tagged(n, w, base) == [i \in 1..n |-> [j \in 1..w |-> base + 10 * i + j]]

TaggedMatrices(base) ==
    { Tagged(n, w, base) : n \in 1..MaxRows, w \in 1..MaxWidth }

OptInt(S) == {None} \cup { Some(n) : n \in S }

\* What a caller may pass as active_dims: None, a list of column numbers
\* (one of them beyond the widest input), or a slice.
ActiveDimsArgs ==
    {NoDims}
    \cup { array(d) : d \in (SeqsUpTo(0..MaxWidth, MaxDim + 1) \ { <<>> }) }
    \cup { slice(a, b, c) : a \in OptInt(0..1), b \in OptInt(1..MaxWidth),
                            c \in OptInt(1..2) }

InitSlice ==
    /\ pc = "new"
    /\ args \in [input_dim : 1..MaxDim, active_dims : ActiveDimsArgs]
    /\ kern = NoKern
    /\ X \in TaggedMatrices(0)
    /\ X2 \in {None} \cup TaggedMatrices(100)
    /\ result = [err |-> OK, X |-> None, X2 |-> None]
    /\ kern_list = <<>> /\ names = <<>> /\ counting_dict = <<>>
    /\ presliced = FALSE /\ setting = "default" /\ warned = 0

\* k = Kern(input_dim, active_dims)
Construct ==
    /\ pc = "new"
    /\ LET k == Kern_init(args.input_dim, args.active_dims)
       IN  /\ kern' = IF k.err = OK
                      THEN [cls |-> "Kern", input_dim |-> k.input_dim,
                            active_dims |-> k.active_dims,
                            num_gauss_hermite_points |->
                                k.num_gauss_hermite_points]
                      ELSE NoKern
           /\ pc' = IF k.err = OK THEN "constructed" ELSE "init_failed"
           /\ result' = [err |-> k.err, X |-> None, X2 |-> None]
    /\ UNCHANGED <<kern_list, names, counting_dict, args, X, X2, presliced,
                   setting, warned>>

\* k._slice(X, X2)
CallSlice ==
    /\ pc = "constructed"
    /\ LET r == Slice(kern, X, X2)
       IN  /\ pc' = IF r.err = OK THEN "slice_done" ELSE "slice_failed"
           /\ result' = r
    /\ UNCHANGED <<kern_list, names, counting_dict, args, kern, X, X2,
                   presliced, setting, warned>>

NextSlice == Construct \/ CallSlice

SpecSlice == InitSlice /\ [][NextSlice]_vars

----------------------------------------------------------------------------
(* Claims about Kern.__init__ and Kern._slice.                             *)

\* The number of columns active_dims selects from an input wide enough to
\* hold every column it names.
Selected(a) ==
    IF IsSlice(a) THEN Len(SliceIndices(a, MaxWidth + 1)) ELSE Len(a.dims)

\* active_dims names its columns itself: a list, or a slice with a stop (a
\* slice without one selects up to the last column of whatever it is given).
Determinate(a) == a # NoDims /\ (IsSlice(a) => a.stop # None)

\* C5: every successfully constructed kernel selects exactly input_dim
\* columns (slice(input_dim) when active_dims is None), and a list or a
\* slice selecting another number of columns makes construction fail with
\* an assertion error.
C5_ConstructedSelectsInputDim ==
    /\ (kern # NoKern /\ args.active_dims = NoDims)
           => kern.active_dims = slice(None, Some(args.input_dim), None)
    /\ (kern # NoKern /\ Determinate(args.active_dims))
           => Selected(kern.active_dims) = kern.input_dim
    /\ (pc # "new" /\ Determinate(args.active_dims)
           /\ Selected(args.active_dims) # args.input_dim)
           => (pc = "init_failed" /\ result.err = "AssertionError")

\* C4: _slice returns X and X2 restricted to the active columns, in order,
\* and every matrix it returns has exactly input_dim columns.
RestrictedTo(S, M, k) ==
    /\ Rows(S) = Rows(M)
    /\ Width(S) = k.input_dim
    /\ \A i \in 1..Rows(S) : \A j \in 1..Width(S) :
         S[i][j] = IF args.active_dims = NoDims THEN M[i][j]
                   ELSE M[i][args.active_dims.dims[j] + 1]

C4_SliceReturnsInputDimColumns ==
    (pc = "slice_done" /\ ~IsSlice(args.active_dims))
        => /\ RestrictedTo(result.X, X, kern)
           /\ X2 # None => RestrictedTo(result.X2, X2, kern)

----------------------------------------------------------------------------
(* Kern._check_quadrature and the four quadrature expectations.            *)

\* The values of settings.numerics.ekern_quadrature.
Settings == {"allow", "warn", "error"}

\* eKdiag, eKxz, exKxz and eKzxKxz: each begins `self._check_quadrature()`.
Expectations == {"eKdiag", "eKxz", "exKxz", "eKzxKxz"}

\* A guard that raises only when both conditions hold.
check_quadrature_and(ekern_quadrature, num_gauss_hermite_points) ==
    [warned |-> IF ekern_quadrature = "warn" THEN 1 ELSE 0,
     err |-> IF ekern_quadrature = "error" /\ num_gauss_hermite_points = 0
             THEN "RuntimeError" ELSE OK]

\* Kern._check_quadrature(), lines 172-177: the number of warnings issued
\* and the error raised (OK when it returns).
check_quadrature(ekern_quadrature, num_gauss_hermite_points) ==
    [warned |-> IF ekern_quadrature = "warn" THEN 1 ELSE 0,
     err |-> IF ekern_quadrature = "error" \/ num_gauss_hermite_points = 0
             THEN "RuntimeError" ELSE OK]

NoCall == [op |-> "None", err |-> OK, value |-> "None"]

InitQuad ==
    /\ pc = "idle"
    /\ setting \in Settings
    /\ kern = [cls |-> "Kern", input_dim |-> 1,
               active_dims |-> slice(None, Some(1), None),
               num_gauss_hermite_points |-> 20]
    /\ result = NoCall
    /\ warned = 0
    /\ kern_list = <<>> /\ names = <<>> /\ counting_dict = <<>>
    /\ args = NoArgs /\ X = None /\ X2 = None /\ presliced = FALSE

\* settings.numerics.ekern_quadrature = s
SetSetting ==
    /\ pc = "idle"
    /\ \E s \in Settings : setting' = s
    /\ UNCHANGED <<pc, kern_list, names, counting_dict, args, kern, X, X2,
                   presliced, result, warned>>

\* k.num_gauss_hermite_points = n
SetPoints ==
    /\ pc = "idle"
    /\ \E n \in 0..MaxPoints :
          kern' = [kern EXCEPT !.num_gauss_hermite_points = n]
    /\ UNCHANGED <<pc, kern_list, names, counting_dict, args, X, X2,
                   presliced, result, setting, warned>>

\* A call of one of the four expectations is entered.
CallExpectation ==
    /\ pc = "idle"
    /\ \E op \in Expectations : result' = [op |-> op, err |-> OK, value |-> "None"]
    /\ warned' = 0
    /\ pc' = "check"
    /\ UNCHANGED <<kern_list, names, counting_dict, args, kern, X, X2,
                   presliced, setting>>

\* Its first statement, self._check_quadrature() (lines 186, 203, 224, 262).
CheckQuadrature ==
    /\ pc = "check"
    /\ LET c == check_quadrature(setting, kern.num_gauss_hermite_points)
       IN  /\ warned' = warned + c.warned
           /\ result' = [result EXCEPT !.err = c.err]
           /\ pc' = IF c.err = OK THEN "body" ELSE "raised"
    /\ UNCHANGED <<kern_list, names, counting_dict, args, kern, X, X2,
                   presliced, setting>>

\* The rest of the expectation (slicing, mvhermgauss, K, the weighted sum):
\* it returns the quadrature's value, or one of its tensor operations fails.
Body ==
    /\ pc = "body"
    /\ \/ /\ result' = [result EXCEPT !.value = "computed"]
          /\ pc' = "done"
       \/ /\ result' = [result EXCEPT !.err = "InvalidArgumentError"]
          /\ pc' = "raised"
    /\ UNCHANGED <<kern_list, names, counting_dict, args, kern, X, X2,
                   presliced, setting, warned>>

\* The caller takes the result or the exception.
Finish ==
    /\ pc \in {"done", "raised"}
    /\ pc' = "idle"
    /\ result' = NoCall
    /\ warned' = 0
    /\ UNCHANGED <<kern_list, names, counting_dict, args, kern, X, X2,
                   presliced, setting>>

NextQuad ==
    SetSetting \/ SetPoints \/ CallExpectation \/ CheckQuadrature \/ Body
    \/ Finish

SpecQuad == InitQuad /\ [][NextQuad]_vars

----------------------------------------------------------------------------
(* Claim about the quadrature guard.                                       *)

\* C6: each of the four expectations checks the quadrature setting before
\* any other work.  Once the check has run: if the setting is "error" or
\* the kernel has 0 quadrature points, the call raised RuntimeError and has
\* no result; if the setting is "warn", one warning was issued, and with a
\* non-zero number of points the check did not raise; for any other setting
\* with a non-zero number of points there is neither a warning nor a
\* RuntimeError.
C6_CheckQuadratureFirst ==
    LET points == kern.num_gauss_hermite_points
        checked == pc \in {"body", "done", "raised"}
    IN  /\ pc = "check" => (result.value = "None" /\ result.err = OK /\ warned = 0)
        /\ (checked /\ (setting = "error" \/ points = 0))
              => /\ pc = "raised"
                 /\ result.err = "RuntimeError"
                 /\ result.value = "None"
        /\ (checked /\ setting = "warn") => warned = 1
        /\ (checked /\ setting # "error" /\ points # 0)
              => /\ result.err # "RuntimeError"
                 /\ warned = (IF setting = "warn" THEN 1 ELSE 0)
                 /\ pc = "done" => result.value = "computed"

\* A call made under "warn" with a non-zero number of points has warned and
\* returned its result.
C6_Witness ==
    /\ pc = "done" /\ setting = "warn" /\ warned = 1
    /\ kern.num_gauss_hermite_points # 0
    /\ result.op \in Expectations /\ result.value = "computed"

----------------------------------------------------------------------------
(* The kernel classes.  Kernel values are fixed-point numbers: the integer *)
(* n stands for n / SCALE.  Inputs, variances, offsets and the entries of  *)
(* W and kappa are integers, so every kernel but Cosine is computed        *)
(* exactly; Cosine's square root and cosine are computed to the resolution *)
(* 1 / SCALE.                                                              *)

SCALE == 10 * 10 * 10

\* Fixed-point product, exact when one factor is a whole number.
FMul(a, b) ==
    IF a % SCALE = 0 THEN (a \div SCALE) * b
    ELSE IF b % SCALE = 0 THEN a * (b \div SCALE)
    ELSE (a * b) \div SCALE

RECURSIVE FPow(_, _)
FPow(a, n) == IF n = 0 THEN SCALE ELSE FMul(FPow(a, n - 1), a)

\* The sum of f[1] .. f[n].
RECURSIVE SumTo(_, _)
SumTo(f, n) == IF n = 0 THEN 0 ELSE f[n] + SumTo(f, n - 1)

\* The largest r with r * r <= n, by bisection on lo <= r < hi.
RECURSIVE Isqrt(_, _, _)
Isqrt(n, lo, hi) ==
    IF hi - lo <= 1 THEN lo
    ELSE LET mid == (lo + hi) \div 2
         IN  IF mid * mid <= n THEN Isqrt(n, mid, hi) ELSE Isqrt(n, lo, mid)

\* tf.sqrt of a fixed-point number.
Sqrt(a) == Isqrt(a * SCALE, 0, a + SCALE + 1)

\* tf.cos of a fixed-point number, by its power series.
RECURSIVE CosSeries(_, _, _)
CosSeries(x2, k, term) ==
    IF k > CosTerms THEN 0
    ELSE term + CosSeries(x2, k + 1,
                          -((term * x2) \div (SCALE * (2 * k + 1) * (2 * k + 2))))

Cos(r) == CosSeries((r * r) \div SCALE, 0, SCALE)

\* A Param holds an array: a scalar parameter is an array of one value.
Param(v) == <<v>>
Scalar(param) == param[1]

\* What a kernel method gives: an error raised, or a value.
Raise(e) == [err |-> e, val |-> None]
Return(v) == [err |-> OK, val |-> v]

\* Static.__init__ (White, Constant, Bias), lines 281-283.
Static_init(cls, input_dim, variance, active_dims) ==
    LET k == Kern_init(input_dim, active_dims)
    IN  [cls |-> cls, err |-> k.err, input_dim |-> k.input_dim,
         active_dims |-> k.active_dims, variance |-> Param(variance)]

\* Stationary.__init__ with ARD=False (Cosine), lines 334-361.
Stationary_init(cls, input_dim, variance, lengthscales, active_dims) ==
    LET k == Kern_init(input_dim, active_dims)
    IN  [cls |-> cls, err |-> k.err, input_dim |-> k.input_dim,
         active_dims |-> k.active_dims, variance |-> Param(variance),
         lengthscales |-> Param(lengthscales), ARD |-> FALSE]

\* Linear.__init__, lines 399-415: with ARD the variance is one value per
\* input dimension.
Linear_init(input_dim, variance, active_dims, ARD) ==
    LET k == Kern_init(input_dim, active_dims)
    IN  [cls |-> "Linear", err |-> k.err, input_dim |-> k.input_dim,
         active_dims |-> k.active_dims, ARD |-> ARD,
         variance |-> IF ARD THEN [j \in 1..k.input_dim |-> variance]
                      ELSE Param(variance)]

\* Polynomial.__init__, lines 436-448.
Polynomial_init(input_dim, degree, variance, offset, active_dims) ==
    LET k == Linear_init(input_dim, variance, active_dims, FALSE)
    IN  [cls |-> "Polynomial", err |-> k.err, input_dim |-> k.input_dim,
         active_dims |-> k.active_dims, ARD |-> k.ARD,
         variance |-> k.variance, degree |-> degree,
         offset |-> Param(offset)]

\* Coregion.__init__, lines 558-588, followed by the assignment of W that
\* its docstring recommends (W is zero after construction).
Coregion_init(input_dim, output_dim, rank, active_dims, W) ==
    LET k == Kern_init(input_dim, active_dims)
    IN  [cls |-> "Coregion",
         err |-> IF input_dim # 1 THEN "AssertionError" ELSE k.err,
         input_dim |-> k.input_dim, active_dims |-> k.active_dims,
         output_dim |-> output_dim, rank |-> rank, W |-> W,
         kappa |-> [i \in 1..output_dim |-> 1]]

\* The largest of a non-empty sequence of numbers.
RECURSIVE MaxOf(_, _)
MaxOf(q, n) == IF n = 1 THEN q[1] ELSE Max(q[n], MaxOf(q, n - 1))

\* The list with the kern_list of every member of class cls spliced in.
RECURSIVE Flatten(_, _, _)
Flatten(cls, kl, n) ==
    IF n = 0 THEN <<>>
    ELSE Flatten(cls, kl, n - 1)
         \o (IF kl[n].cls = cls THEN kl[n].kern_list ELSE <<kl[n]>>)

\* Combination.__init__ (Add, Prod), lines 643-659.
Combination_init(cls, kl) ==
    LET dims == [i \in 1..Len(kl) |->
                   IF IsSlice(kl[i].active_dims) THEN kl[i].input_dim
                   ELSE MaxOf(kl[i].active_dims.dims,
                              Len(kl[i].active_dims.dims)) + 1]
        k == Kern_init(MaxOf(dims, Len(dims)), NoDims)
    IN  [cls |-> cls, err |-> k.err, input_dim |-> k.input_dim,
         active_dims |-> k.active_dims,
         kern_list |-> Flatten(cls, kl, Len(kl))]

\* `X, X2 = self._slice(X, X2)` unless presliced.
Sliced(k, M, M2, pre) ==
    IF pre THEN [err |-> OK, X |-> M, X2 |-> M2] ELSE Slice(k, M, M2)

\* White.K, lines 294-300.
White_K(k, M, M2) ==
    IF M2 = None
    THEN Return([i \in 1..Rows(M) |-> [j \in 1..Rows(M) |->
                    IF i = j THEN SCALE * Scalar(k.variance) ELSE 0]])
    ELSE Return([i \in 1..Rows(M) |-> [j \in 1..Rows(M2) |->
                    0]])

\* Constant.K (and Bias), lines 308-313.
Constant_K(k, M, M2) ==
    Return([i \in 1..Rows(M) |->
              [j \in 1..(IF M2 = None THEN Rows(M) ELSE Rows(M2)) |->
                    SCALE * Scalar(k.variance)]])

\* Linear.K, lines 417-423: tf.matmul fails on operands of different width.
Linear_K(k, M, M2, pre) ==
    LET s == Sliced(k, M, M2, pre)
    IN  IF s.err # OK THEN Raise(s.err)
        ELSE LET A == s.X
                 B == IF s.X2 = None THEN s.X ELSE s.X2
             IN  IF Width(A) # Width(B) \/ (k.ARD /\ Width(A) # Len(k.variance))
                 THEN Raise("InvalidArgumentError")
                 ELSE Return([i \in 1..Rows(A) |-> [j \in 1..Rows(B) |->
                    SCALE * SumTo([c \in 1..Width(A) |->
                            A[i][c] * (IF k.ARD THEN k.variance[c]
                                       ELSE Scalar(k.variance)) * B[j][c]],
                            Width(A))]])

\* Polynomial.K, lines 450-451.
Polynomial_K(k, M, M2, pre) ==
    LET lin == Linear_K(k, M, M2, pre)
    IN  IF lin.err # OK THEN lin
        ELSE Return([i \in 1..Rows(lin.val) |-> [j \in 1..Width(lin.val) |->
                    FPow(lin.val[i][j] + SCALE * Scalar(k.offset), k.degree)]])

\* Stationary.square_dist, lines 363-373, for a scalar lengthscale.
square_dist(k, A, B) ==
    LET l2 == Scalar(k.lengthscales) * Scalar(k.lengthscales)
        Sq(R) == [i \in 1..Rows(R) |->
                    SumTo([c \in 1..Width(R) |-> R[i][c] * R[i][c]], Width(R))]
        As == Sq(A)
        Bs == Sq(B)
    IN  [i \in 1..Rows(A) |-> [j \in 1..Rows(B) |->
                    (SCALE * (-2 * SumTo([c \in 1..Width(A) |-> A[i][c] * B[j][c]],
                                 Width(A))
                      + As[i] + Bs[j])) \div l2]]

\* Stationary.euclid_dist, lines 375-377.  The 1e-12 added under the root
\* is below the resolution and adds 0.
euclid_dist(k, A, B) ==
    LET r2 == square_dist(k, A, B)
    IN  [i \in 1..Rows(A) |-> [j \in 1..Rows(B) |->
                    Sqrt(r2[i][j] + 0)]]

\* Cosine.K, lines 512-516.
Cosine_K(k, M, M2, pre) ==
    LET s == Sliced(k, M, M2, pre)
    IN  IF s.err # OK THEN Raise(s.err)
        ELSE LET A == s.X
                 B == IF s.X2 = None THEN s.X ELSE s.X2
             IN  IF Width(A) # Width(B) THEN Raise("InvalidArgumentError")
                 ELSE LET r == euclid_dist(k, A, B)
                      IN  Return([i \in 1..Rows(A) |-> [j \in 1..Rows(B) |->
                    Scalar(k.variance) * Cos(r[i][j])]])

\* B = W W^T + diag(kappa), line 597 (rows and columns numbered from 0).
Coregion_B(k, a, b) ==
    SumTo([r \in 1..k.rank |-> k.W[a + 1][r] * k.W[b + 1][r]], k.rank)
    + (IF a = b THEN k.kappa[a + 1] ELSE 0)

\* Coregion.K, lines 590-598: always slices; tf.gather raises on an index
\* that is not a row of B.
Coregion_K(k, M, M2) ==
    LET s == Slice(k, M, M2)
    IN  IF s.err # OK THEN Raise(s.err)
        ELSE LET a == [i \in 1..Rows(s.X) |-> s.X[i][1]]
                 b == IF s.X2 = None THEN a
                      ELSE [j \in 1..Rows(s.X2) |-> s.X2[j][1]]
                 InB(q) == \A i \in 1..Len(q) : q[i] \in 0..(k.output_dim - 1)
             IN  IF ~InB(a) \/ ~InB(b) THEN Raise("InvalidArgumentError")
                 ELSE Return([i \in 1..Len(a) |-> [j \in 1..Len(b) |->
                    SCALE * Coregion_B(k, b[j], a[i])]])

\* tf.add ("add") and tf.mul ("mul") of two numbers.
tf_op(op, a, b) == IF op = "add" THEN a + b ELSE FMul(a, b)

\* tf.add and tf.mul of two results: an error of either operand is raised.
Elementwise(op, a, b) ==
    IF a.err # OK THEN a
    ELSE IF b.err # OK THEN b
    ELSE Return([i \in 1..Rows(a.val) |-> [j \in 1..Width(a.val) |->
                    tf_op(op, a.val[i][j], b.val[i][j])]])

\* reduce(op, [r1, .., rn]) = op(.. op(op(r1, r2), r3) .., rn).
RECURSIVE reduce(_, _, _)
reduce(op, rs, n) ==
    IF n = 1 THEN rs[1]
    ELSE Elementwise(op, reduce(op, rs, n - 1), rs[n])

\* A member that is handed presliced through, where every member is to be
\* called as k.K(X, X2).
RECURSIVE K(_, _, _, _)
Add_K_presliced(k, M, M2, pre) ==
    reduce("add", [i \in 1..Len(k.kern_list) |-> K(k.kern_list[i], M, M2, pre)],
           Len(k.kern_list))

\* k.K(X, X2, presliced) by the class of k.  Add.K and Prod.K, lines
\* 687-688 and 695-696, call every member as k.K(X, X2).
Add_K(k, M, M2, pre) ==
    reduce("add", [i \in 1..Len(k.kern_list) |-> K(k.kern_list[i], M, M2, FALSE)],
           Len(k.kern_list))

Prod_K(k, M, M2, pre) ==
    reduce("mul", [i \in 1..Len(k.kern_list) |-> K(k.kern_list[i], M, M2, FALSE)],
           Len(k.kern_list))

K(k, M, M2, pre) ==
    CASE k.cls = "White" -> White_K(k, M, M2)
      [] k.cls \in {"Constant", "Bias"} -> Constant_K(k, M, M2)
      [] k.cls = "Linear" -> Linear_K(k, M, M2, pre)
      [] k.cls = "Polynomial" -> Polynomial_K(k, M, M2, pre)
      [] k.cls = "Cosine" -> Cosine_K(k, M, M2, pre)
      [] k.cls = "Coregion" -> Coregion_K(k, M, M2)
      [] k.cls = "Add" -> Add_K(k, M, M2, pre)
      [] k.cls = "Prod" -> Prod_K(k, M, M2, pre)

\* tf.add and tf.mul of two vectors.
ElementwiseVec(op, a, b) ==
    IF a.err # OK THEN a
    ELSE IF b.err # OK THEN b
    ELSE Return([i \in 1..Len(a.val) |-> tf_op(op, a.val[i], b.val[i])])

RECURSIVE reduceVec(_, _, _)
reduceVec(op, rs, n) ==
    IF n = 1 THEN rs[1]
    ELSE ElementwiseVec(op, reduceVec(op, rs, n - 1), rs[n])

\* Static.Kdiag, Stationary.Kdiag and PeriodicKernel.Kdiag, lines 285-286,
\* 379-380 and 538-539: the variance, once per row.
Fill_Kdiag(k, M) == Return([i \in 1..Rows(M) |-> SCALE * Scalar(k.variance)])

\* Linear.Kdiag, lines 425-428.
Linear_Kdiag(k, M, pre) ==
    LET s == Sliced(k, M, None, pre)
    IN  IF s.err # OK THEN Raise(s.err)
        ELSE IF k.ARD /\ Width(s.X) # Len(k.variance)
        THEN Raise("InvalidArgumentError")
        ELSE Return([i \in 1..Rows(s.X) |->
                SCALE * SumTo([c \in 1..Width(s.X) |->
                    s.X[i][c] * s.X[i][c]
                    * (IF k.ARD THEN k.variance[c] ELSE Scalar(k.variance))],
                    Width(s.X))])

\* Polynomial.Kdiag, lines 453-454.
Polynomial_Kdiag(k, M, pre) ==
    LET lin == Linear_Kdiag(k, M, pre)
    IN  IF lin.err # OK THEN lin
        ELSE Return([i \in 1..Len(lin.val) |->
                FPow(lin.val[i] + SCALE * Scalar(k.offset), k.degree)])

\* Coregion.Kdiag, lines 600-604.
Coregion_Kdiag(k, M) ==
    LET s == Slice(k, M, None)
    IN  IF s.err # OK THEN Raise(s.err)
        ELSE IF \E i \in 1..Rows(s.X) : s.X[i][1] \notin 0..(k.output_dim - 1)
        THEN Raise("InvalidArgumentError")
        ELSE Return([i \in 1..Rows(s.X) |->
                SCALE * (SumTo([r \in 1..k.rank |->
                                  k.W[s.X[i][1] + 1][r] * k.W[s.X[i][1] + 1][r]],
                               k.rank)
                         + k.kappa[s.X[i][1] + 1])])

RECURSIVE Kdiag(_, _, _)
\* k.Kdiag(X, presliced) by the class of k.  Add.Kdiag and Prod.Kdiag,
\* lines 690-691 and 698-699, call every member as k.Kdiag(X).
Add_Kdiag(k, M, pre) ==
    reduceVec("add", [i \in 1..Len(k.kern_list) |-> Kdiag(k.kern_list[i], M, FALSE)],
              Len(k.kern_list))

Prod_Kdiag(k, M, pre) ==
    reduceVec("mul", [i \in 1..Len(k.kern_list) |-> Kdiag(k.kern_list[i], M, FALSE)],
              Len(k.kern_list))

Kdiag(k, M, pre) ==
    CASE k.cls \in {"White", "Constant", "Bias", "Cosine"} -> Fill_Kdiag(k, M)
      [] k.cls = "Linear" -> Linear_Kdiag(k, M, pre)
      [] k.cls = "Polynomial" -> Polynomial_Kdiag(k, M, pre)
      [] k.cls = "Coregion" -> Coregion_Kdiag(k, M)
      [] k.cls = "Add" -> Add_Kdiag(k, M, pre)
      [] k.cls = "Prod" -> Prod_Kdiag(k, M, pre)

----------------------------------------------------------------------------
(* compute_K_symm on every kernel class.                                   *)

\* The n x w matrices with entries in 0..v, for n in 1..rows.
Matrices(rows, w, v) ==
    UNION { [1..n -> [1..w -> 0..v]] : n \in 1..rows }

\* Two settings of Coregion's W (output_dim x 1): zero, as constructed, and
\* one with mixed signs.
CoregionW(output_dim) ==
    { [i \in 1..output_dim |-> <<0>>],
      [i \in 1..output_dim |-> <<IF i % 2 = 0 THEN i ELSE -i>>] }

\* One kernel of every class, on one column and on all MaxDim columns.
BaseKernels ==
    UNION {
      { Static_init("White", MaxDim, v, NoDims),
        Static_init("Constant", MaxDim, v, NoDims),
        Static_init("Bias", MaxDim, v, NoDims),
        Linear_init(MaxDim, v, NoDims, FALSE),
        Linear_init(MaxDim, v, NoDims, TRUE),
        Linear_init(1, v, array(<<1>>), FALSE),
        Polynomial_init(MaxDim, 2, v, 1, NoDims),
        Polynomial_init(MaxDim, 3, v, 1, NoDims),
        Stationary_init("Cosine", 1, v, 1, array(<<1>>)),
        Stationary_init("Cosine", MaxDim, v, 1, NoDims) } : v \in 1..MaxVar }
    \cup { Coregion_init(1, MaxVal + 1, 1, array(<<0>>), W) :
             W \in CoregionW(MaxVal + 1) }

\* The kernels that are combined in pairs.
PairKernels ==
    { Static_init("White", MaxDim, 1, NoDims),
      Static_init("Constant", MaxDim, MaxVar, NoDims),
      Linear_init(MaxDim, 1, NoDims, FALSE),
      Stationary_init("Cosine", MaxDim, 1, 1, NoDims),
      Coregion_init(1, MaxVal + 1, 1, array(<<0>>),
                    [i \in 1..(MaxVal + 1) |-> <<IF i % 2 = 0 THEN i ELSE -i>>]) }

\* a + b and a * b, lines 138-142.
PairCombinations ==
    { Combination_init(cls, <<a, b>>) :
        cls \in {"Add", "Prod"}, a \in PairKernels, b \in PairKernels }

InitPSD ==
    /\ pc = "idle"
    /\ kern \in BaseKernels \cup PairCombinations
    /\ X \in Matrices(MaxN, MaxDim, MaxVal)
    /\ X2 = None
    /\ presliced = FALSE
    /\ result = Raise(OK)
    /\ kern_list = <<>> /\ names = <<>> /\ counting_dict = <<>>
    /\ args = NoArgs /\ setting = "warn" /\ warned = 0

\* Kern.compute_K_symm(X), lines 148-150: self.K(X).
compute_K_symm ==
    /\ pc = "idle"
    /\ result' = K(kern, X, None, FALSE)
    /\ pc' = "K_done"
    /\ UNCHANGED <<kern_list, names, counting_dict, args, kern, X, X2,
                   presliced, setting, warned>>

NextPSD == compute_K_symm

SpecPSD == InitPSD /\ [][NextPSD]_vars

----------------------------------------------------------------------------
(* Claim about positive semi-definiteness.                                 *)

\* v^T A v for a square matrix A.
Quad(v, A) ==
    SumTo([i \in 1..Len(A) |->
             SumTo([j \in 1..Len(A) |-> v[i] * A[i][j] * v[j]], Len(A))],
          Len(A))

\* The fixed-point cosine is within 1/20 of the cosine, so a quadratic form
\* of n x n entries with coefficients in -1..1 and variances up to MaxVar
\* is within n * n * MaxVar / 20 of its value.
Tolerance(n) == (n * n * MaxVar * SCALE) \div 20

\* C1: for every kernel class, Add and Prod included, K(X) with X2 omitted
\* is symmetric and positive semi-definite: K[i][j] = K[j][i], and
\* v^T K v >= 0 for every vector v (here: every v with entries in -1..1,
\* and up to the resolution of the fixed-point cosine).
C1_SymmetricPSD ==
    (pc = "K_done" /\ result.err = OK) =>
        LET A == result.val
            n == Len(A)
        IN  /\ \A i, j \in 1..n : A[i][j] = A[j][i]
            /\ \A v \in [1..n -> -1..1] : Quad(v, A) >= -Tolerance(n)

----------------------------------------------------------------------------
(* Add and Prod.                                                           *)

\* The kernels that are combined: one that never slices, one on column 1,
\* one whose K takes no presliced argument, and a sum (spliced into the
\* list of an Add, a member of its own in a Prod).
CombMembers ==
    { Static_init("White", 2, 2, NoDims),
      Linear_init(1, 1, array(<<1>>), FALSE),
      Coregion_init(1, 2, 1, array(<<0>>), << <<1>>, <<-2>> >>),
      Combination_init("Add", << Static_init("Constant", 1, 1, NoDims),
                                 Linear_init(1, 2, NoDims, FALSE) >>) }

InitComb ==
    /\ pc = "idle"
    /\ kern_list \in (SeqsUpTo(CombMembers, MaxComb) \ { <<>> })
    /\ \E cls \in {"Add", "Prod"} : kern = Combination_init(cls, kern_list)
    /\ X \in Matrices(MaxRows, 2, 1)
    /\ X2 \in {None} \cup Matrices(1, 2, 1)
    /\ presliced = FALSE
    /\ result = Raise(OK)
    /\ names = <<>> /\ counting_dict = <<>>
    /\ args = NoArgs /\ setting = "warn" /\ warned = 0

\* kern.K(X, X2, presliced=p)
CallK ==
    /\ pc = "idle"
    /\ \E p \in BOOLEAN :
          /\ presliced' = p
          /\ result' = K(kern, X, X2, p)
    /\ pc' = "K_done"
    /\ UNCHANGED <<kern_list, names, counting_dict, args, kern, X, X2,
                   setting, warned>>

\* kern.Kdiag(X, presliced=p): Kdiag takes no X2.
CallKdiag ==
    /\ pc = "idle"
    /\ X2 = None
    /\ \E p \in BOOLEAN :
          /\ presliced' = p
          /\ result' = Kdiag(kern, X, p)
    /\ pc' = "Kdiag_done"
    /\ UNCHANGED <<kern_list, names, counting_dict, args, kern, X, X2,
                   setting, warned>>

NextComb == CallK \/ CallKdiag

SpecComb == InitComb /\ [][NextComb]_vars

----------------------------------------------------------------------------
(* Claim about Add and Prod.                                               *)

\* The sum and the fixed-point product of f[1] .. f[n].
RECURSIVE ProdTo(_, _)
ProdTo(f, n) == IF n = 0 THEN SCALE ELSE FMul(f[n], ProdTo(f, n - 1))

Combined(cls, f, n) == IF cls = "Add" THEN SumTo(f, n) ELSE ProdTo(f, n)

Reverse(q) == [i \in 1..Len(q) |-> q[Len(q) + 1 - i]]

\* C7: Add.K(X, X2) is the elementwise sum, and Prod.K(X, X2) the
\* elementwise product, of k.K(X, X2) over every k in kern_list, each
\* member given the unsliced X and X2 and slicing them by its own
\* active_dims; likewise Kdiag; the result is the same whatever presliced
\* is, and the same for the members taken in the opposite order.
C7_SumAndProductOfMembers ==
    LET ms == kern.kern_list
        n == Len(ms)
        swapped == Combination_init(kern.cls, Reverse(kern_list))
    IN  /\ pc = "K_done" =>
              LET parts == [c \in 1..n |-> K(ms[c], X, X2, FALSE)]
              IN  /\ result.err = OK <=> \A c \in 1..n : parts[c].err = OK
                  /\ result.err = OK =>
                       /\ Rows(result.val) = Rows(X)
                       /\ \A i \in 1..Rows(result.val) :
                            \A j \in 1..Width(result.val) :
                               result.val[i][j] =
                                 Combined(kern.cls,
                                          [c \in 1..n |-> parts[c].val[i][j]], n)
                  /\ result = K(swapped, X, X2, presliced)
        /\ pc = "Kdiag_done" =>
              LET parts == [c \in 1..n |-> Kdiag(ms[c], X, FALSE)]
              IN  /\ result.err = OK <=> \A c \in 1..n : parts[c].err = OK
                  /\ result.err = OK =>
                       /\ Len(result.val) = Rows(X)
                       /\ \A i \in 1..Len(result.val) :
                               result.val[i] =
                                 Combined(kern.cls,
                                          [c \in 1..n |-> parts[c].val[i]], n)
                  /\ result = Kdiag(swapped, X, presliced)

\* A sum of at least two members, one of them on a column of its own, was
\* evaluated on X and X2 with presliced=True.
C7_Witness ==
    /\ pc = "K_done" /\ kern.cls = "Add" /\ presliced /\ X2 # None
    /\ Len(kern.kern_list) >= 2
    /\ \E c \in 1..Len(kern.kern_list) : ~IsSlice(kern.kern_list[c].active_dims)
    /\ result.err = OK
    /\ \E i \in 1..Rows(result.val) : result.val[i][1] # 0

=============================================================================
